---- MODULE Spec2Model ----
(***************************************************************************)
(* State-machine model of the S3 scoreboard BLE server:                    *)
(*   server/ble_manager.py  BLEManager (scan loop, filter, sessions,       *)
(*                          telemetry updates, disconnect handling)        *)
(*   server/events.py       EventBus (subscribe / unsubscribe / publish)   *)
(*   server/models.py       DeviceState                                    *)
(*                                                                         *)
(* Granularity.  The program runs on one asyncio event loop, so tasks      *)
(* interleave only where a coroutine really suspends: at transport and     *)
(* discovery I/O, at asyncio.sleep, at asyncio.gather, and at the          *)
(* acquisition of an asyncio.Lock that is held by another task.  An        *)
(* uncontended asyncio.Lock.acquire() returns without suspending, and the  *)
(* EventBus lock is never held across a suspension, so `await              *)
(* event_bus.publish(..)` never yields.  Each action below is the code     *)
(* between two suspension points of one task.                              *)
(***************************************************************************)
EXTENDS Integers, Sequences, FiniteSets, TLC

(***************************************************************************)
(* Bounds of the model (not program constants).                            *)
(***************************************************************************)
\* sessions (BleakClient objects) that may exist at once for one address
MaxPerId == 2
\* scan-loop tasks that may be alive at once
MaxLoops == 1
\* scan-loop tasks that may be alive at once where start() is studied
\* against a loop that an earlier start() created (SpecLoops)
MaxOverlap == 2
\* length of one discovery result
MaxFound == 2
\* tasks that may wait in the event loop's ready queue
MaxTasks == 2
\* subscriber queues handed out by subscribe()
MaxSubs == 2
\* undelivered events a subscriber queue is explored up to
MaxPending == 3
\* longest key handed to deterministic_color on its own
MaxKeyLen == 7

(***************************************************************************)
(* Program constants.                                                      *)
(***************************************************************************)
\* config.py: MAX_DEVICES = 54.  The model scales the cap down to 2 so that
\* three advertising peripherals are enough to reach it.
MAX_DEVICES == 2
\* config.py: SCAN_INTERVAL default, seconds
SCAN_INTERVAL == 8
\* _scan_loop: max_consecutive_errors
max_consecutive_errors == 5
\* asyncio.Queue() is constructed without maxsize; asyncio's default is 0,
\* which means "no limit"
QueueMaxsize == 0
\* config.py: SERVICE_UUID default (lower case, as every comparison lowers it)
SERVICE_UUID == "c9b9a344-a062-4e55-a507-441c7e610e2c"
\* config.py: STRICT_SERVICE_UUID_FILTERING default
STRICT_SERVICE_UUID_FILTERING == TRUE
\* config.py: ALLOWED_DEVICE_NAME_PATTERNS default
ALLOWED_DEVICE_NAME_PATTERNS == {"scoreboard", "game", "ble"}

COLOR_PALETTE ==
  << "#FF6B6B", "#4ECDC4", "#1A535C", "#FF9F1C", "#2EC4B6", "#E71D36",
     "#6A4C93", "#1982C4", "#8AC926", "#FF595E", "#FFCA3A", "#6A994E",
     "#386641", "#8338EC", "#3A86FF", "#FB5607" >>

(***************************************************************************)
(* Values the model draws its inputs from.                                 *)
(***************************************************************************)
\* device addresses
Ids == {"A1", "B2", "C3"}
\* ord(c) of the characters of an address, in order
Codes(key) ==
  CASE key = "A1" -> <<65, 49>>
    [] key = "B2" -> <<66, 50>>
    [] key = "C3" -> <<67, 51>>
    [] OTHER -> <<>>

Keys == Ids \X (1..MaxPerId)
Loops == 1..MaxOverlap
Subs == 1..MaxSubs

\* Python's None
None == [t |-> "None"]

VARIABLES
  running,      \* BLEManager._running
  devices,      \* BLEManager.devices : address -> DeviceState (a dict)
  clients,      \* BLEManager._clients : address -> client (a dict); the
                \* client is named by the key of the session that made it
  lock,         \* BLEManager._lock : "free", or "stop" while stop() holds it
  stopTodo,     \* stop(): clients of its snapshot not yet disconnected
  loops,        \* the _scan_loop tasks
  sess,         \* the _connect_device tasks and the BleakClient of each
  tasks,        \* ready queue of the tasks made by the transport callbacks
  subscribers,  \* EventBus._subscribers
  queues,       \* the asyncio.Queue of each subscriber handle
  lastEvent,    \* history: the event most recently published for each id
  failRun,      \* history: discovery cycles failed in a row, per loop
  tx,           \* the send_tx_data call: where it is, or what it returned
  probe,        \* one call of a function of the module that touches no
                \* state (_device_matches, the decoders): argument and result
  notified      \* history: per id, the game_name and score of the session
                \* that last reached the insert, overwritten by what each
                \* notification since then carried, in the order the
                \* callbacks ran; cleared when a disconnected callback runs

vars == << running, devices, clients, lock, stopTodo, loops, sess, tasks,
           subscribers, queues, lastEvent, failRun, tx, probe, notified >>

mgrVars == << running, devices, clients, lock, stopTodo, loops, sess, tasks,
              lastEvent, failRun, tx, probe, notified >>
busVars == << subscribers, queues >>

(***************************************************************************)
(* models.py                                                               *)
(***************************************************************************)
\* deterministic_color: h = (h * 31 + ord(c)) & 0xFFFFFFFF over the key.
\* The 32-bit value h is kept as two 16-bit halves, h = hi * 2^16 + lo.
Half == 65536

\* a step that loses the carry out of the low half
HashStep_NoCarry(h, c) ==
  [hi |-> (h.hi * 31) % Half, lo |-> (h.lo * 31 + c) % Half]

HashStep(h, c) ==
  LET lo == h.lo * 31 + c
  IN [hi |-> (h.hi * 31 + lo \div Half) % Half, lo |-> lo % Half]

RECURSIVE ColorHash(_, _)
ColorHash(cs, h) ==
  IF cs = <<>> THEN h ELSE ColorHash(Tail(cs), HashStep(h, Head(cs)))

\* h % len(COLOR_PALETTE): 16 divides 2^16, so the low half decides
PaletteIndex(h) == h.lo % Len(COLOR_PALETTE)

deterministic_color(key) ==
  COLOR_PALETTE[PaletteIndex(ColorHash(Codes(key), [hi |-> 0, lo |-> 0])) + 1]

\* DeviceState(id, name, game_name, score, color); to_dict() copies the five
\* fields into a new dict, so a record value stands for both
DeviceState(id, name, game_name, score, color) ==
  [id |-> id, name |-> name, game_name |-> game_name, score |-> score,
   color |-> color]

\* a to_dict that leaves the score at its default
to_dict_NoScore(state) ==
  [id |-> state.id, name |-> state.name, game_name |-> state.game_name,
   score |-> 0, color |-> state.color]

to_dict(state) ==
  [id |-> state.id, name |-> state.name, game_name |-> state.game_name,
   score |-> state.score, color |-> state.color]

(***************************************************************************)
(* Python dicts: a function whose domain is the set of keys present.       *)
(***************************************************************************)
EmptyDict == [x \in {} |-> None]

DictSet(d, k, v) == [x \in (DOMAIN d) \cup {k} |-> IF x = k THEN v ELSE d[x]]

DictPop(d, k) == [x \in (DOMAIN d) \ {k} |-> d[x]]

(***************************************************************************)
(* events.py: EventBus                                                     *)
(***************************************************************************)
\* asyncio.Queue.full(): maxsize <= 0 means the queue is never full
QueueFull(q) == QueueMaxsize > 0 /\ Len(q) >= QueueMaxsize

\* q.put_nowait(event) inside try / except asyncio.QueueFull: pass
put_nowait(q, event) == IF QueueFull(q) THEN q ELSE Append(q, event)

\* a publish that stops after the first registered queue
BusPublish_FirstOnly(qs, subs, event) ==
  [s \in Subs |->
     IF s \in subs /\ \A t \in subs : s <= t
     THEN put_nowait(qs[s], event) ELSE qs[s]]

\* a bus that queues the live entry: what waits in a queue about the id
\* shows the fields of the event published now
BusPublish_ByReference(qs, subs, event) ==
  LET Alias(e) ==
        IF /\ "device" \in DOMAIN event
           /\ "device" \in DOMAIN e
           /\ e.device.id = event.device.id
        THEN [e EXCEPT !.device = event.device] ELSE e
  IN [s \in Subs |->
        IF s \in subs
        THEN put_nowait([i \in 1..Len(qs[s]) |-> Alias(qs[s][i])], event)
        ELSE qs[s]]

\* EventBus.publish: put_nowait on every registered queue
BusPublish(qs, subs, event) ==
  [s \in Subs |-> IF s \in subs THEN put_nowait(qs[s], event) ELSE qs[s]]

\* The model explores a queue up to MaxPending undelivered events: a step
\* that publishes is explored only while every registered queue is shorter.
CanPublish == \A s \in subscribers : Len(queues[s]) < MaxPending

\* the two event shapes the manager publishes
DeviceEvent(type, state) == [type |-> type, device |-> to_dict(state)]

RemovedEvent(addr) == [type |-> "device_removed", id |-> addr]

NoEvent == [type |-> "none"]

\* A publish call of the manager: the bus fans the event out, and the
\* history variable records it as the latest event for the id; tick flips
\* at every publish for the id, so that a step that publishes is visible.
Publish(addr, event) ==
  /\ CanPublish
  /\ queues' = BusPublish(queues, subscribers, event)
  /\ lastEvent' = [lastEvent EXCEPT ![addr] =
                      [event |-> event, tick |-> 1 - @.tick]]
  /\ UNCHANGED subscribers

NoPublish == UNCHANGED << subscribers, queues, lastEvent >>

(***************************************************************************)
(* Payloads.  A payload (bytes) is described by how the decoders read it:  *)
(*   enc = "empty"  b""                                                    *)
(*   enc = "json"   UTF-8 text that json.loads accepts, val its value      *)
(*   enc = "pair"   UTF-8 text "name:n" that is not JSON, n accepted by    *)
(*                  int()                                                  *)
(*   enc = "int"    UTF-8 text accepted by int() but not by json.loads     *)
(*   enc = "raw"    anything else                                          *)
(* together with len (number of bytes), u32 (the first four bytes as a     *)
(* little-endian unsigned integer, when len >= 4) and, for text that       *)
(* int(text.strip()) accepts, that integer in asInt.                       *)
(***************************************************************************)
PyDict(d) == [t |-> "dict", d |-> d]

PyInt(n) == [t |-> "int", v |-> n]

\* b'{"score": 7}'
P_score7 ==
  [enc |-> "json", val |-> PyDict([k \in {"score"} |-> 7]),
   len |-> 12, u32 |-> 1668489851, isInt |-> FALSE, asInt |-> 0]

\* b'Pong:0'
P_pong0 ==
  [enc |-> "pair", name |-> "Pong", num |-> 0,
   len |-> 6, u32 |-> 1735290704, isInt |-> FALSE, asInt |-> 0]

\* b'7'
P_seven ==
  [enc |-> "json", val |-> PyInt(7),
   len |-> 1, u32 |-> 0, isInt |-> TRUE, asInt |-> 7]

\* b'{"game_name": "Pong", "score": 7}'
P_pong7 ==
  [enc |-> "json",
   val |-> PyDict([k \in {"game_name", "score"} |->
                     IF k = "game_name" THEN "Pong" ELSE 7]),
   len |-> 33, u32 |-> 1634148987, isInt |-> FALSE, asInt |-> 0]

\* b'{"game_name": "Snake"}'
P_snake ==
  [enc |-> "json", val |-> PyDict([k \in {"game_name"} |-> "Snake"]),
   len |-> 22, u32 |-> 1634148987, isInt |-> FALSE, asInt |-> 0]

\* b'42': json.loads accepts the text and gives the int 42
P_fortytwo ==
  [enc |-> "json", val |-> PyInt(42),
   len |-> 2, u32 |-> 0, isInt |-> TRUE, asInt |-> 42]

\* struct.pack("<I", 300): decodes as UTF-8, but is neither JSON nor an int
P_le300 ==
  [enc |-> "raw", len |-> 4, u32 |-> 300, isInt |-> FALSE, asInt |-> 0]

\* b''
P_empty ==
  [enc |-> "empty", len |-> 0, u32 |-> 0, isInt |-> FALSE, asInt |-> 0]

\* Python truthiness of a decoded value
Truthy(x) ==
  CASE x.t = "None" -> FALSE
    [] x.t = "dict" -> DOMAIN x.d # {}
    [] x.t = "int" -> x.v # 0
    [] OTHER -> TRUE

\* BLEManager._parse_rx_data
ParseRx(data) ==
  IF data.enc = "empty" THEN None
  ELSE IF data.enc = "json" THEN data.val
  ELSE IF data.enc = "pair"
    THEN PyDict([k \in {"game_name", "score"} |->
                   IF k = "game_name" THEN data.name ELSE data.num])
  ELSE IF data.enc = "int" THEN PyDict([k \in {"score"} |-> data.num])
  ELSE IF data.len >= 4 THEN PyDict([k \in {"score"} |-> data.u32])
  ELSE None

\* BLEManager._parse_score: None is modelled by ok = FALSE
ParseScore(data) ==
  IF data.enc = "empty" THEN [ok |-> FALSE, score |-> 0]
  ELSE IF data.isInt THEN [ok |-> TRUE, score |-> data.asInt]
  ELSE IF data.len >= 4 THEN [ok |-> TRUE, score |-> data.u32]
  ELSE [ok |-> FALSE, score |-> 0]

\* raw.decode(errors="ignore").strip() on the texts the model reads from the
\* legacy characteristic
Strip(text) == IF text = " " THEN "" ELSE text

(***************************************************************************)
(* Advertisement records and the security filter.                          *)
(***************************************************************************)
UPPER_UUID == "C9B9A344-A062-4E55-A507-441C7E610E2C"
OTHER_UUID == "0000180f-0000-1000-8000-00805f9b34fb"

\* str.lower() on the UUID strings of the model
Lower(u) == IF u = UPPER_UUID THEN SERVICE_UUID ELSE u

\* name.lower() contains keyword.strip().lower(), on the names of the model
NameContains(name, keyword) ==
  \/ name = "scoreboard-1" /\ keyword = "scoreboard"
  \/ name = "Game Pad" /\ keyword = "game"

\* An advertisement value (bytes); hasUuid: str(v).lower() contains the
\* target UUID
AdvValue(hasUuid) == [hasUuid |-> hasUuid]

\* BLEDevice: address, name ("" for None), props (details["props"]["UUIDs"],
\* <<>> when absent), hasMeta (d.metadata present and truthy) and the three
\* metadata entries
AdvRecord(address, name, props, hasMeta, sdata, suuids, mdata) ==
  [address |-> address, name |-> name, props |-> props, hasMeta |-> hasMeta,
   service_data |-> sdata, service_uuids |-> suuids,
   manufacturer_data |-> mdata]

SeqHasUuid(us) == \E i \in 1..Len(us) : Lower(us[i]) = Lower(SERVICE_UUID)

\* a fall-through that takes the permissive branch in strict mode too
NoEvidenceResult_Permissive(d, strict_filtering) == TRUE

\* a permissive branch that accepts name matches only
NoEvidenceResult_NameOnly(d, strict_filtering) ==
  /\ ~strict_filtering
  /\ d.name # ""
  /\ \E kw \in ALLOWED_DEVICE_NAME_PATTERNS : NameContains(d.name, kw)

\* _device_matches after the three evidence tests: `if not strict_filtering`
\* returns True for a name match and True otherwise; strict mode rejects
NoEvidenceResult(d, strict_filtering) ==
  IF ~strict_filtering
  THEN IF d.name # ""
          /\ \E kw \in ALLOWED_DEVICE_NAME_PATTERNS : NameContains(d.name, kw)
       THEN TRUE
       ELSE TRUE
  ELSE FALSE

\* BLEManager._device_matches
device_matches(d, strict_filtering) ==
  IF d.props # <<>> /\ SeqHasUuid(d.props) THEN TRUE
  ELSE IF d.hasMeta
          /\ \/ \E u \in DOMAIN d.service_data : Lower(u) = Lower(SERVICE_UUID)
             \/ SeqHasUuid(d.service_uuids)
             \/ LET adv_data == IF DOMAIN d.manufacturer_data # {}
                                THEN d.manufacturer_data
                                ELSE d.service_data
                IN \E k \in DOMAIN adv_data : adv_data[k].hasUuid
       THEN TRUE
  ELSE NoEvidenceResult(d, strict_filtering)

\* a record that advertises the target service / one that shows no evidence
AdvTarget(id) ==
  AdvRecord(id, "", <<SERVICE_UUID>>, FALSE, EmptyDict, <<>>, EmptyDict)

AdvStranger(id) ==
  AdvRecord(id, "Phone", <<OTHER_UUID>>, FALSE, EmptyDict, <<>>, EmptyDict)

(***************************************************************************)
(* Tasks.                                                                  *)
(*                                                                         *)
(* A session is one _connect_device task together with the BleakClient it  *)
(* creates; the client outlives the task while the link is up or           *)
(* _clients still refers to it.  pc is the place the coroutine waits at:   *)
(*   "connect"   client.connect()                                          *)
(*   "verify"    get_services() and the initial reads (nothing shared is   *)
(*               touched between these awaits)                             *)
(*   "lock"      `async with self._lock` before the insert                 *)
(*   "notify"    start_notify(), after the insert and device_added         *)
(*   "done"      returned after set_disconnected_callback                  *)
(*   "rejected"  returned at the service check                             *)
(*   "failed"    returned through the outer except                         *)
(* link: the transport is connected.  svc: the peripheral exposes the      *)
(* target service.  handler: the notification callback registered.         *)
(* lost (history): the link went down after the insert.                    *)
(***************************************************************************)
FreeSess ==
  [pc |-> "free", link |-> FALSE, svc |-> FALSE, handler |-> "none",
   name |-> "", lost |-> FALSE]

\* A scan loop task: pc is "new" (created by start()), "discover", "gather",
\* "sleep" (asyncio.sleep of `sleep` seconds) or "none" (no such task)
NoLoop == [pc |-> "none", errors |-> 0, tasks |-> {}, sleep |-> 0]

\* a session that never returns once its connection attempt has failed
Finished_SuccessOnly == {"done", "rejected"}

\* the values of pc at which _connect_device has returned
Finished == {"done", "rejected", "failed"}

\* send_tx_data: pc is "idle" (never called), "write" (suspended in
\* write_gatt_char on the client `key`), "true" / "false" (the value it
\* returned) or "raised" (an exception left the call).  wrote (history):
\* write_gatt_char returned without raising.
TxIdle == [pc |-> "idle", addr |-> "", key |-> <<"", 0>>, wrote |-> FALSE]

\* the client object send_tx_data is writing to
TxHolds(k) == tx.pc = "write" /\ tx.key = k

Referenced(cl) == {cl[a] : a \in DOMAIN cl}

Gathered(lp) == UNION {lp[l].tasks : l \in Loops}

\* Objects nothing refers to any more are dropped: a finished session whose
\* link is down, that is in no _clients entry, no stop() snapshot and no
\* gather.  A handler on a dead link can no longer be called.
Gc(se, cl, todo, lp) ==
  [k \in Keys |->
     IF se[k].pc \in Finished /\ ~se[k].link
        /\ k \notin Referenced(cl) \cup todo \cup Gathered(lp)
     THEN FreeSess
     ELSE IF ~se[k].link THEN [se[k] EXCEPT !.handler = "none"]
     ELSE se[k]]

\* nothing inserted or notified for an id
NoTelemetry == [game_name |-> "", score |-> 0]

\* asyncio.create_task from a callback of the transport: the new task
\* would run before the tasks that are already ready
create_task_First(ts, t) == << t >> \o ts

\* asyncio.create_task: the task is put at the end of the ready queue
create_task(ts, t) == Append(ts, t)

\* no call of a stateless function is under way
NoProbe == [pc |-> "none", fn |-> "", arg |-> None, res |-> None]

\* the manager and the bus after construction
InitManager ==
  /\ running = FALSE
  /\ devices = EmptyDict
  /\ clients = EmptyDict
  /\ lock = "free"
  /\ stopTodo = {}
  /\ loops = [l \in Loops |-> NoLoop]
  /\ sess = [k \in Keys |-> FreeSess]
  /\ tasks = <<>>
  /\ subscribers = {}
  /\ queues = [s \in Subs |-> <<>>]
  /\ lastEvent = [i \in Ids |-> [event |-> NoEvent, tick |-> 0]]
  /\ failRun = [l \in Loops |-> 0]
  /\ tx = TxIdle
  /\ notified = [i \in Ids |-> NoTelemetry]

Init == InitManager /\ probe = NoProbe

\* The event loop runs the tasks that are ready, in the order they became
\* ready, before it handles the next I/O event; a task that needs the lock
\* while stop() holds it waits in the lock's queue, which is first-in
\* first-out as well.  So while such a task can run, it runs next.
TaskReady == tasks # <<>> /\ lock = "free"

(***************************************************************************)
(* BLEManager.start / _scan_loop                                           *)
(***************************************************************************)
\* start(): if not running, set the flag and create the scan loop task;
\* explored while fewer than n loop tasks are alive
StartLoop(n) ==
  /\ ~TaskReady
  /\ ~running
  /\ \E l \in 1..n :
       /\ loops[l].pc = "none"
       /\ \A m \in 1..n : m < l => loops[m].pc # "none"
       /\ loops' = [loops EXCEPT ![l] = [NoLoop EXCEPT !.pc = "new"]]
       /\ failRun' = [failRun EXCEPT ![l] = 0]
  /\ running' = TRUE
  /\ UNCHANGED << devices, clients, lock, stopTodo, sess, tasks,
                  subscribers, queues, lastEvent >>
  /\ UNCHANGED << tx, probe, notified >>

Start == StartLoop(MaxLoops)

\* start() where a loop of an earlier start() may still be alive
Restart == StartLoop(MaxOverlap)

\* The loop task runs for the first time, or its sleep ends.  After the
\* elongated sleep the counter is reset (`consecutive_errors = 0; continue`).
\* Then `while self._running`: call discover(), or leave the loop.
LoopIterate(l) ==
  /\ ~TaskReady
  /\ loops[l].pc \in {"new", "sleep"}
  /\ LET long == loops[l].pc = "sleep" /\ loops[l].sleep = SCAN_INTERVAL * 3
         errs == IF long THEN 0 ELSE loops[l].errors
         run == IF failRun[l] >= max_consecutive_errors THEN 0 ELSE failRun[l]
     IN IF running
        THEN /\ loops' = [loops EXCEPT ![l] =
                            [pc |-> "discover", errors |-> errs,
                             tasks |-> {}, sleep |-> 0]]
             /\ failRun' = [failRun EXCEPT ![l] = run]
        ELSE /\ loops' = [loops EXCEPT ![l] = NoLoop]
             /\ failRun' = [failRun EXCEPT ![l] = 0]
  /\ UNCHANGED << running, devices, clients, lock, stopTodo, sess, tasks,
                  subscribers, queues, lastEvent >>
  /\ UNCHANGED << tx, probe, notified >>

\* lowest free session key of an address
FreeKey(se, addr) ==
  LET ns == {n \in 1..MaxPerId :
               se[<<addr, n>>].pc = "free" /\ ~TxHolds(<<addr, n>>)}
  IN <<addr, CHOOSE n \in ns : \A m \in ns : n <= m>>

HasFreeKey(se, addr) ==
  \E n \in 1..MaxPerId : se[<<addr, n>>].pc = "free" /\ ~TxHolds(<<addr, n>>)

\* `for d in found:` of _scan_loop from entry i on.  Nothing is awaited in
\* the body, so devices and _clients are those of the moment discover()
\* returned.  Both connect branches (new device, known device without a
\* client) create a task; the else branch skips.  r.sess: the sessions,
\* r.keys: the tasks list, r.fit: the model had a free session for every task.
RECURSIVE ScanFound(_, _, _)
ScanFound(found, i, r) ==
  IF i > Len(found) THEN r
  ELSE IF Cardinality(DOMAIN devices) >= MAX_DEVICES THEN r
  ELSE LET d == found[i]
           addr == d.address
       IN IF device_matches(d, STRICT_SERVICE_UUID_FILTERING)
             /\ (\/ addr \notin DOMAIN devices /\ addr \notin DOMAIN clients
                 \/ addr \in DOMAIN devices /\ addr \notin DOMAIN clients)
          THEN IF HasFreeKey(r.sess, addr)
               THEN LET k == FreeKey(r.sess, addr)
                    IN ScanFound(found, i + 1,
                         [sess |-> [r.sess EXCEPT ![k] =
                                      [FreeSess EXCEPT !.pc = "connect",
                                                       !.name = d.name]],
                          keys |-> r.keys \cup {k},
                          fit |-> r.fit])
               ELSE [r EXCEPT !.fit = FALSE]
          ELSE ScanFound(found, i + 1, r)

\* discover() returned `found`: reset the counter, create the sessions, then
\* wait in gather, or in the inter-cycle sleep when no task was created
DiscoverOk(l, found) ==
  /\ ~TaskReady
  /\ loops[l].pc = "discover"
  /\ LET r == ScanFound(found, 1, [sess |-> sess, keys |-> {}, fit |-> TRUE])
     IN /\ r.fit
        /\ sess' = r.sess
        /\ loops' = [loops EXCEPT ![l] =
                       IF r.keys = {}
                       THEN [pc |-> "sleep", errors |-> 0, tasks |-> {},
                             sleep |-> SCAN_INTERVAL]
                       ELSE [pc |-> "gather", errors |-> 0, tasks |-> r.keys,
                             sleep |-> 0]]
  /\ failRun' = [failRun EXCEPT ![l] = 0]
  /\ UNCHANGED << running, devices, clients, lock, stopTodo, tasks,
                  subscribers, queues, lastEvent >>
  /\ UNCHANGED << tx, probe, notified >>

\* a threshold test that is off by one
ErrorSleep_Late(errors) ==
  IF errors > max_consecutive_errors THEN SCAN_INTERVAL * 3 ELSE SCAN_INTERVAL

\* the sleep that follows a cycle that raised, given the counter after the
\* increment
ErrorSleep(errors) ==
  IF errors >= max_consecutive_errors THEN SCAN_INTERVAL * 3 ELSE SCAN_INTERVAL

\* discover() raised: count it and sleep
DiscoverFail(l) ==
  /\ ~TaskReady
  /\ loops[l].pc = "discover"
  /\ loops' = [loops EXCEPT ![l] =
                 [pc |-> "sleep", errors |-> loops[l].errors + 1,
                  tasks |-> {}, sleep |-> ErrorSleep(loops[l].errors + 1)]]
  /\ failRun' = [failRun EXCEPT ![l] =
                   IF @ >= max_consecutive_errors THEN @ ELSE @ + 1]
  /\ UNCHANGED << running, devices, clients, lock, stopTodo, sess, tasks,
                  subscribers, queues, lastEvent >>
  /\ UNCHANGED << tx, probe, notified >>

\* a gather that raises the exception of a failed session
GatherRaises_OnFailure(se, ks) == \E k \in ks : se[k].pc = "failed"

\* `await asyncio.gather(*tasks, return_exceptions=True)` raises into the
\* try of the scan loop: never, since exceptions come back as results (and
\* _connect_device catches its own in the outer except)
GatherRaises(se, ks) == FALSE

\* asyncio.gather returned: every task of the cycle has finished
GatherDone(l) ==
  /\ ~TaskReady
  /\ loops[l].pc = "gather"
  /\ \A k \in loops[l].tasks : sess[k].pc \in Finished
  /\ loops' = [loops EXCEPT ![l] =
                 IF GatherRaises(sess, loops[l].tasks)
                 THEN [pc |-> "sleep", errors |-> loops[l].errors + 1,
                       tasks |-> {}, sleep |-> ErrorSleep(loops[l].errors + 1)]
                 ELSE [pc |-> "sleep", errors |-> loops[l].errors,
                       tasks |-> {}, sleep |-> SCAN_INTERVAL]]
  /\ sess' = Gc(sess, clients, stopTodo, loops')
  /\ UNCHANGED << running, devices, clients, lock, stopTodo, tasks,
                  subscribers, queues, lastEvent, failRun >>
  /\ UNCHANGED << tx, probe, notified >>

(***************************************************************************)
(* BLEManager._connect_device                                              *)
(***************************************************************************)
\* client.connect() returned; svc says whether the peripheral's GATT table
\* holds the target service
ConnectOk(k, svc) ==
  /\ ~TaskReady
  /\ sess[k].pc = "connect"
  /\ sess' = [sess EXCEPT ![k] = [@ EXCEPT !.pc = "verify", !.link = TRUE,
                                           !.svc = svc]]
  /\ UNCHANGED << running, devices, clients, lock, stopTodo, loops, tasks,
                  subscribers, queues, lastEvent, failRun >>
  /\ UNCHANGED << tx, probe, notified >>

\* where a session that ends without a client in use leaves its record
EndSession(se, k, pc) ==
  [se EXCEPT ![k] = [@ EXCEPT !.pc = pc, !.link = FALSE, !.svc = FALSE]]

\* client.connect() raised (timeout, error): the outer except disconnects
ConnectFail(k) ==
  /\ ~TaskReady
  /\ sess[k].pc = "connect"
  /\ sess' = Gc(EndSession(sess, k, "failed"), clients, stopTodo, loops)
  /\ UNCHANGED << running, devices, clients, lock, stopTodo, loops, tasks,
                  subscribers, queues, lastEvent, failRun >>
  /\ UNCHANGED << tx, probe, notified >>

\* a session that skips the service check
ServiceVerified_Skipped(k) == TRUE

\* `SERVICE_UUID.lower() not in service_uuids` is false
ServiceVerified(k) == sess[k].svc

\* the services do not include SERVICE_UUID: disconnect and return
VerifyReject(k) ==
  /\ ~TaskReady
  /\ sess[k].pc = "verify"
  /\ ~ServiceVerified(k)
  /\ sess' = Gc(EndSession(sess, k, "rejected"), clients, stopTodo, loops)
  /\ UNCHANGED << running, devices, clients, lock, stopTodo, loops, tasks,
                  subscribers, queues, lastEvent, failRun >>
  /\ UNCHANGED << tx, probe, notified >>

\* get_services() raised: the outer except disconnects
VerifyFail(k) ==
  /\ ~TaskReady
  /\ sess[k].pc = "verify"
  /\ sess' = Gc(EndSession(sess, k, "failed"), clients, stopTodo, loops)
  /\ UNCHANGED << running, devices, clients, lock, stopTodo, loops, tasks,
                  subscribers, queues, lastEvent, failRun >>
  /\ UNCHANGED << tx, probe, notified >>

\* The initial reads.  o.rxOk: read_gatt_char(RX) returned o.raw; o.txOk: the
\* legacy read of TX returned o.text.  A decoded value that is not a dict
\* has no .get: the AttributeError is caught like a failed read.
InitialState(o) ==
  LET parsed == ParseRx(o.raw)
      viaRx == o.rxOk /\ (~Truthy(parsed) \/ parsed.t = "dict")
  IN IF viaRx
     THEN IF Truthy(parsed)
          THEN [game_name |-> IF "game_name" \in DOMAIN parsed.d
                              THEN parsed.d["game_name"] ELSE "Unknown Game",
                score |-> IF "score" \in DOMAIN parsed.d
                          THEN parsed.d["score"] ELSE 0]
          ELSE [game_name |-> "Unknown Game", score |-> 0]
     ELSE [game_name |-> IF o.txOk /\ Strip(o.text) # ""
                         THEN Strip(o.text) ELSE "Unknown Game",
           score |-> 0]

ReadOutcomes(payloads, texts) ==
  [rxOk : BOOLEAN, raw : payloads, txOk : BOOLEAN, text : texts]

InsertTask(k, init) ==
  [kind |-> "insert", addr |-> k[1], data |-> None, score |-> init.score,
   key |-> k, game_name |-> init.game_name]

\* Service verified and the initial reads are over: the coroutine reaches
\* `async with self._lock`.  On a link that is down no read returns.
SessionReads(k, o) ==
  /\ ~TaskReady
  /\ sess[k].pc = "verify"
  /\ ServiceVerified(k)
  /\ sess[k].link \/ (~o.rxOk /\ ~o.txOk)
  /\ sess' = [sess EXCEPT ![k] = [@ EXCEPT !.pc = "lock"]]
  /\ tasks' = create_task(tasks, InsertTask(k, InitialState(o)))
  /\ UNCHANGED << running, devices, clients, lock, stopTodo, loops,
                  subscribers, queues, lastEvent, failRun >>
  /\ UNCHANGED << tx, probe >>
  /\ notified' = [notified EXCEPT ![k[1]] = InitialState(o)]

\* With the lock: put the DeviceState and the client into the maps; then
\* publish device_added and call start_notify.
InsertDevice ==
  /\ tasks # <<>>
  /\ Head(tasks).kind = "insert"
  /\ lock = "free"
  /\ LET k == Head(tasks).key
         addr == k[1]
         device_name == IF sess[k].name # "" THEN sess[k].name ELSE addr
         state == DeviceState(addr, device_name, Head(tasks).game_name,
                              Head(tasks).score, deterministic_color(addr))
     IN /\ devices' = DictSet(devices, addr, state)
        /\ clients' = DictSet(clients, addr, k)
        /\ Publish(addr, DeviceEvent("device_added", state))
        /\ sess' = Gc([sess EXCEPT ![k] = [@ EXCEPT !.pc = "notify"]],
                      clients', stopTodo, loops)
  /\ tasks' = Tail(tasks)
  /\ UNCHANGED << running, lock, stopTodo, loops, failRun >>
  /\ UNCHANGED << tx, probe, notified >>

\* a session for which the failure of both registrations is fatal: it
\* leaves through the outer except, which closes the transport
NotifyOutcome_Abort(se, k, h) ==
  IF h = "none" THEN EndSession(se, k, "failed")
  ELSE [se EXCEPT ![k] = [@ EXCEPT !.pc = "done", !.handler = h]]

\* the session after the two try blocks around start_notify: both except
\* clauses only log, so the session goes on to its last statement
NotifyOutcome(se, k, h) ==
  [se EXCEPT ![k] = [@ EXCEPT !.pc = "done", !.handler = h]]

\* start_notify over (h = "rx": on RX_CHAR_UUID; "legacy": the fallback on
\* SCORE_CHAR_UUID; "none": both raised), then set_disconnected_callback and
\* return.  On a link that is down both registrations raise.
NotifyDone(k, h) ==
  /\ ~TaskReady
  /\ sess[k].pc = "notify"
  /\ sess[k].link \/ h = "none"
  /\ sess' = Gc(NotifyOutcome(sess, k, h), clients, stopTodo, loops)
  /\ UNCHANGED << running, devices, clients, lock, stopTodo, loops, tasks,
                  subscribers, queues, lastEvent, failRun >>
  /\ UNCHANGED << tx, probe, notified >>

(***************************************************************************)
(* The transport's callbacks.                                              *)
(***************************************************************************)
RxTask(addr, data) ==
  [kind |-> "rx", addr |-> addr, data |-> data, score |-> 0,
   key |-> <<addr, 0>>, game_name |-> ""]

ScoreTask(addr, score) ==
  [kind |-> "score", addr |-> addr, data |-> None, score |-> score,
   key |-> <<addr, 0>>, game_name |-> ""]

DiscTask(addr) ==
  [kind |-> "disc", addr |-> addr, data |-> None, score |-> 0,
   key |-> <<addr, 0>>, game_name |-> ""]

\* The peripheral goes away.  The disconnected callback, when one is set
\* (the session has returned), creates the _handle_disconnect task.
LinkDrop(k) ==
  /\ ~TaskReady
  /\ sess[k].link
  /\ sess[k].pc \in {"verify", "lock", "notify", "done"}
  /\ Len(tasks) < MaxTasks
  /\ tasks' = IF sess[k].pc = "done" THEN create_task(tasks, DiscTask(k[1]))
              ELSE tasks
  /\ sess' = Gc([sess EXCEPT ![k] =
                   [@ EXCEPT !.link = FALSE,
                             !.lost = sess[k].pc \in {"notify", "done"}]],
                clients, stopTodo, loops)
  /\ UNCHANGED << running, devices, clients, lock, stopTodo, loops,
                  subscribers, queues, lastEvent, failRun >>
  /\ UNCHANGED << tx, probe >>
  /\ notified' = IF sess[k].pc = "done"
                 THEN [notified EXCEPT ![k[1]] = NoTelemetry]
                 ELSE notified

\* handle_rx_data: a notification on RX_CHAR_UUID
RxNotify(k, data) ==
  /\ ~TaskReady
  /\ sess[k].pc = "done" /\ sess[k].link /\ sess[k].handler = "rx"
  /\ Len(tasks) < MaxTasks
  /\ LET parsed_data == ParseRx(data)
     IN /\ Truthy(parsed_data)
        /\ tasks' = create_task(tasks, RxTask(k[1], parsed_data))
  /\ UNCHANGED << running, devices, clients, lock, stopTodo, loops, sess,
                  subscribers, queues, lastEvent, failRun >>
  /\ UNCHANGED << tx, probe >>
  /\ LET d == ParseRx(data)
     IN notified' =
          IF d.t = "dict"
          THEN [notified EXCEPT ![k[1]] =
                  [game_name |-> IF "game_name" \in DOMAIN d.d
                                 THEN d.d["game_name"] ELSE @.game_name,
                   score |-> IF "score" \in DOMAIN d.d
                             THEN d.d["score"] ELSE @.score]]
          ELSE notified

\* handle_legacy_score: a notification on SCORE_CHAR_UUID
LegacyNotify(k, data) ==
  /\ ~TaskReady
  /\ sess[k].pc = "done" /\ sess[k].link /\ sess[k].handler = "legacy"
  /\ Len(tasks) < MaxTasks
  /\ LET r == ParseScore(data)
     IN /\ r.ok
        /\ tasks' = create_task(tasks, ScoreTask(k[1], r.score))
  /\ UNCHANGED << running, devices, clients, lock, stopTodo, loops, sess,
                  subscribers, queues, lastEvent, failRun >>
  /\ UNCHANGED << tx, probe >>
  /\ notified' = [notified EXCEPT ![k[1]] =
                     [@ EXCEPT !.score = ParseScore(data).score]]

(***************************************************************************)
(* The tasks the callbacks create.  The event loop runs ready tasks in the *)
(* order they were created, and each of these runs to its end without      *)
(* suspending once it holds the lock.                                      *)
(***************************************************************************)
\* a handler that stores the update as the whole telemetry of the entry:
\* a field the update does not carry falls back to its default
RxApplied_Replace(device, d) ==
  [device EXCEPT
     !.game_name = IF "game_name" \in DOMAIN d THEN d["game_name"]
                   ELSE "Unknown Game",
     !.score = IF "score" \in DOMAIN d THEN d["score"] ELSE 0]

\* the entry after _handle_rx_data's two comparisons
RxApplied(device, d) ==
  [device EXCEPT
     !.game_name = IF "game_name" \in DOMAIN d /\ d["game_name"] # device.game_name
                   THEN d["game_name"] ELSE @,
     !.score = IF "score" \in DOMAIN d /\ d["score"] # device.score
               THEN d["score"] ELSE @]

\* a handler that publishes whether or not a value changed
RxUpdated_Always(device, d) == TRUE

\* the flag `updated` of _handle_rx_data
RxUpdated(device, d) == RxApplied(device, d) # device

\* `"game_name" in data` raises TypeError: the decoded value is no
\* container (of the values of the model, the int)
RxRaises(data) == data.t # "dict"

\* BLEManager._handle_rx_data.  `"game_name" in data` raises TypeError for a
\* decoded value that is not a container; the task ends there.
HandleRxData ==
  /\ tasks # <<>>
  /\ Head(tasks).kind = "rx"
  /\ lock = "free"
  /\ LET addr == Head(tasks).addr
         data == Head(tasks).data
     IN IF addr \in DOMAIN devices /\ ~RxRaises(data)
           /\ RxUpdated(devices[addr], data.d)
        THEN /\ devices' = [devices EXCEPT ![addr] = RxApplied(@, data.d)]
             /\ Publish(addr, DeviceEvent("device_updated", devices'[addr]))
        ELSE /\ devices' = devices
             /\ NoPublish
  /\ tasks' = Tail(tasks)
  /\ UNCHANGED << running, clients, lock, stopTodo, loops, sess, failRun >>
  /\ UNCHANGED << tx, probe, notified >>

\* `await event_bus.publish(payload)` of _update_score stands after the
\* `async with` block: when `addr in self.devices` is false no statement
\* has bound `payload`, and the call raises UnboundLocalError
ScoreRaises(devs, addr) == addr \notin DOMAIN devs

\* BLEManager._update_score.  For an address that is not in devices,
\* `payload` is unbound at the publish call: UnboundLocalError ends the task.
UpdateScore ==
  /\ tasks # <<>>
  /\ Head(tasks).kind = "score"
  /\ lock = "free"
  /\ LET addr == Head(tasks).addr
         score == Head(tasks).score
     IN IF ~ScoreRaises(devices, addr) /\ devices[addr].score # score
        THEN /\ devices' = [devices EXCEPT ![addr] = [@ EXCEPT !.score = score]]
             /\ Publish(addr, DeviceEvent("device_updated", devices'[addr]))
        ELSE /\ devices' = devices
             /\ NoPublish
  /\ tasks' = Tail(tasks)
  /\ UNCHANGED << running, clients, lock, stopTodo, loops, sess, failRun >>
  /\ UNCHANGED << tx, probe, notified >>

\* a handler that publishes device_removed whether or not it popped a state
PoppedState_Always(devs, addr) == TRUE

\* `if state:` of _handle_disconnect, state being devices.pop(addr, None)
PoppedState(devs, addr) == addr \in DOMAIN devs

\* BLEManager._handle_disconnect
HandleDisconnect ==
  /\ tasks # <<>>
  /\ Head(tasks).kind = "disc"
  /\ lock = "free"
  /\ LET addr == Head(tasks).addr
     IN /\ clients' = DictPop(clients, addr)
        /\ devices' = DictPop(devices, addr)
        /\ IF PoppedState(devices, addr)
           THEN Publish(addr, RemovedEvent(addr))
           ELSE NoPublish
  /\ tasks' = Tail(tasks)
  /\ sess' = Gc(sess, clients', stopTodo, loops)
  /\ UNCHANGED << running, lock, stopTodo, loops, failRun >>
  /\ UNCHANGED << tx, probe, notified >>

(***************************************************************************)
(* BLEManager.stop                                                         *)
(***************************************************************************)
\* stop() up to its first suspension: clear the flag, take the lock and
\* snapshot _clients; with no client it clears the map and returns
StopBegin ==
  /\ ~TaskReady
  /\ lock = "free"
  /\ running' = FALSE
  /\ IF DOMAIN clients = {}
     THEN UNCHANGED << lock, stopTodo >>
     ELSE /\ lock' = "stop"
          /\ stopTodo' = Referenced(clients)
  /\ UNCHANGED << devices, clients, loops, sess, tasks, subscribers, queues,
                  lastEvent, failRun >>
  /\ UNCHANGED << tx, probe, notified >>

\* One `await client.disconnect()` of stop() is over.  ok: the link is now
\* down, and the disconnected callback, when one is set, has created the
\* _handle_disconnect task; ~ok: the call raised and the exception is
\* swallowed.  After the last one: _clients.clear() and release the lock.
StopDisconnect(k, ok) ==
  /\ lock = "stop"
  /\ k \in stopTodo
  /\ stopTodo' = stopTodo \ {k}
  /\ tasks' = IF ok /\ sess[k].link /\ sess[k].pc = "done"
              THEN create_task(tasks, DiscTask(k[1]))
              ELSE tasks
  /\ IF stopTodo' = {}
     THEN clients' = EmptyDict /\ lock' = "free"
     ELSE UNCHANGED << clients, lock >>
  /\ sess' = Gc(IF ok THEN [sess EXCEPT ![k] = [@ EXCEPT !.link = FALSE]]
                ELSE sess,
                clients', stopTodo', loops)
  /\ UNCHANGED << running, devices, loops, subscribers, queues, lastEvent,
                  failRun >>
  /\ UNCHANGED << tx, probe >>
  /\ notified' = IF ok /\ sess[k].link /\ sess[k].pc = "done"
                 THEN [notified EXCEPT ![k[1]] = NoTelemetry]
                 ELSE notified

(***************************************************************************)
(* BLEManager.send_tx_data                                                 *)
(***************************************************************************)
\* a send_tx_data that does not test the client map
TxHasClient_Unchecked(cl, addr) == TRUE

\* `addr not in self._clients` is false
TxHasClient(cl, addr) == addr \in DOMAIN cl

\* send_tx_data up to its first suspension.  With the lock: return False
\* when the address has no client, else take the client.  Then, inside the
\* try, json.dumps (jsonOk: the data can be serialised; a TypeError is
\* caught and gives False) and the call of write_gatt_char.  A call made
\* while stop() holds the lock waits and does this once the lock is free.
SendTxBegin(addr, jsonOk) ==
  /\ ~TaskReady
  /\ lock = "free"
  /\ tx.pc # "write"
  /\ tx' = IF ~TxHasClient(clients, addr)
           THEN [pc |-> "false", addr |-> addr, key |-> <<addr, 0>>,
                 wrote |-> FALSE]
           ELSE IF addr \notin DOMAIN clients
           THEN [pc |-> "raised", addr |-> addr, key |-> <<addr, 0>>,
                 wrote |-> FALSE]
           ELSE IF ~jsonOk
           THEN [pc |-> "false", addr |-> addr, key |-> clients[addr],
                 wrote |-> FALSE]
           ELSE [pc |-> "write", addr |-> addr, key |-> clients[addr],
                 wrote |-> FALSE]
  /\ UNCHANGED << running, devices, clients, lock, stopTodo, loops, sess,
                  tasks, subscribers, queues, lastEvent, failRun, probe, notified >>

\* write_gatt_char is over: it returned (ok, possible on a connected client
\* only) and send_tx_data returns True, or it raised and the except returns
\* False
TxWriteDone(ok) ==
  /\ ~TaskReady
  /\ tx.pc = "write"
  /\ ok => sess[tx.key].link
  /\ tx' = [tx EXCEPT !.pc = IF ok THEN "true" ELSE "false", !.wrote = ok]
  /\ UNCHANGED << running, devices, clients, lock, stopTodo, loops, sess,
                  tasks, subscribers, queues, lastEvent, failRun, probe, notified >>

(***************************************************************************)
(* EventBus.subscribe / unsubscribe and the consumer of a queue            *)
(***************************************************************************)
\* subscribe(): a new queue, appended to _subscribers
Subscribe(s) ==
  /\ ~TaskReady
  /\ s \notin subscribers
  /\ subscribers' = subscribers \cup {s}
  /\ queues' = [queues EXCEPT ![s] = <<>>]
  /\ UNCHANGED mgrVars

\* unsubscribe(q): remove q if it is registered; the websocket handler that
\* owned the queue ends with this call, so what the queue held is dropped
Unsubscribe(s) ==
  /\ ~TaskReady
  /\ s \in subscribers
  /\ subscribers' = subscribers \ {s}
  /\ queues' = [queues EXCEPT ![s] = <<>>]
  /\ UNCHANGED mgrVars

\* queue.get() of the websocket handler
Consume(s) ==
  /\ ~TaskReady
  /\ s \in subscribers
  /\ queues[s] # <<>>
  /\ queues' = [queues EXCEPT ![s] = Tail(@)]
  /\ UNCHANGED subscribers
  /\ UNCHANGED mgrVars

(***************************************************************************)
(* Specifications.  Each draws the inputs of the environment (discovery    *)
(* results, payloads, I/O outcomes) from small sets.                       *)
(***************************************************************************)
FoundLists(recs, n) == UNION {[1..m -> recs] : m \in 0..n}

LegacyTexts == {"", "Pong"}

Handlers == {"rx", "legacy", "none"}

(***************************************************************************)
(* Spec: one peripheral (A1) in range, which a discovery result may list   *)
(* twice, and a stranger the filter turns away; every telemetry path.      *)
(***************************************************************************)
MainFounds == FoundLists({AdvTarget("A1"), AdvStranger("B2")}, MaxFound)

MainReads == ReadOutcomes({P_empty, P_pong0}, LegacyTexts)

MainPayloads == {P_score7, P_pong0, P_seven}

Next ==
  \/ Start
  \/ StopBegin
  \/ \E k \in Keys, ok \in BOOLEAN : StopDisconnect(k, ok)
  \/ \E l \in Loops : LoopIterate(l)
  \/ \E l \in Loops, found \in MainFounds : DiscoverOk(l, found)
  \/ \E l \in Loops : GatherDone(l)
  \/ \E k \in Keys, svc \in BOOLEAN : ConnectOk(k, svc)
  \/ \E k \in Keys : ConnectFail(k)
  \/ \E k \in Keys : VerifyReject(k)
  \/ \E k \in Keys : VerifyFail(k)
  \/ \E k \in Keys, o \in MainReads : SessionReads(k, o)
  \/ \E k \in Keys, h \in Handlers : NotifyDone(k, h)
  \/ \E k \in Keys : LinkDrop(k)
  \/ \E k \in Keys, data \in MainPayloads : RxNotify(k, data)
  \/ \E k \in Keys, data \in MainPayloads : LegacyNotify(k, data)
  \/ InsertDevice
  \/ HandleRxData
  \/ UpdateScore
  \/ HandleDisconnect

Spec == Init /\ [][Next]_vars

(***************************************************************************)
(* SpecCap: three peripherals in range, each listed at most once in a      *)
(* discovery result; no telemetry and no stop().                           *)
(***************************************************************************)
Distinct(found) ==
  \A i, j \in DOMAIN found : i # j => found[i].address # found[j].address

CapFounds ==
  {found \in FoundLists({AdvTarget(id) : id \in Ids}, MaxFound) :
     Distinct(found)}

CapRead == [rxOk |-> FALSE, raw |-> P_empty, txOk |-> FALSE, text |-> ""]

NextCap ==
  \/ Start
  \/ \E l \in Loops : LoopIterate(l)
  \/ \E l \in Loops, found \in CapFounds : DiscoverOk(l, found)
  \/ \E l \in Loops : GatherDone(l)
  \/ \E k \in Keys : ConnectOk(k, TRUE)
  \/ \E k \in Keys : ConnectFail(k)
  \/ \E k \in Keys : SessionReads(k, CapRead)
  \/ \E k \in Keys : NotifyDone(k, "none")
  \/ \E k \in Keys : LinkDrop(k)
  \/ InsertDevice
  \/ HandleDisconnect

SpecCap == Init /\ [][NextCap]_vars

(***************************************************************************)
(* SpecBackoff: discovery may raise; one peripheral, whose connection       *)
(* attempts succeed, fail or are rejected; stop() and start().             *)
(***************************************************************************)
BackoffFounds == FoundLists({AdvTarget("A1")}, 1)

NextBackoff ==
  \/ Start
  \/ StopBegin
  \/ \E k \in Keys, ok \in BOOLEAN : StopDisconnect(k, ok)
  \/ \E l \in Loops : LoopIterate(l)
  \/ \E l \in Loops, found \in BackoffFounds : DiscoverOk(l, found)
  \/ \E l \in Loops : DiscoverFail(l)
  \/ \E l \in Loops : GatherDone(l)
  \/ \E k \in Keys, svc \in BOOLEAN : ConnectOk(k, svc)
  \/ \E k \in Keys : ConnectFail(k)
  \/ \E k \in Keys : VerifyReject(k)
  \/ \E k \in Keys : SessionReads(k, CapRead)
  \/ \E k \in Keys : NotifyDone(k, "none")
  \/ \E k \in Keys : LinkDrop(k)
  \/ InsertDevice
  \/ HandleDisconnect

SpecBackoff == Init /\ [][NextBackoff]_vars

(***************************************************************************)
(* SpecBus: websocket handlers subscribe, consume and unsubscribe while    *)
(* one peripheral connects, sends telemetry and goes away.                 *)
(***************************************************************************)
BusFounds == FoundLists({AdvTarget("A1")}, 1)

BusPayloads == {P_score7}

NextBus ==
  \/ Start
  \/ \E l \in Loops : LoopIterate(l)
  \/ \E l \in Loops, found \in BusFounds : DiscoverOk(l, found)
  \/ \E l \in Loops : GatherDone(l)
  \/ \E k \in Keys : ConnectOk(k, TRUE)
  \/ \E k \in Keys : SessionReads(k, CapRead)
  \/ \E k \in Keys : NotifyDone(k, "rx")
  \/ \E k \in Keys : LinkDrop(k)
  \/ \E k \in Keys, data \in BusPayloads : RxNotify(k, data)
  \/ InsertDevice
  \/ HandleRxData
  \/ HandleDisconnect
  \/ \E s \in Subs : Subscribe(s)
  \/ \E s \in Subs : Unsubscribe(s)
  \/ \E s \in Subs : Consume(s)

SpecBus == Init /\ [][NextBus]_vars

(***************************************************************************)
(* FairSpec: one peripheral that connects and may go away at any moment.   *)
(* Every step of the program that is enabled is eventually taken: ready    *)
(* tasks run, and discover(), connect(), the reads and start_notify return *)
(* (each has a timeout or fails on a dead link).  What the peripheral does *)
(* (LinkDrop) and the call of start() are under no obligation.             *)
(***************************************************************************)
FairFounds == FoundLists({AdvTarget("A1")}, 1)

FairPayloads == {P_score7, P_pong0}

NextFair ==
  \/ Start
  \/ \E l \in Loops : LoopIterate(l)
  \/ \E l \in Loops, found \in FairFounds : DiscoverOk(l, found)
  \/ \E l \in Loops : GatherDone(l)
  \/ \E k \in Keys : ConnectOk(k, TRUE)
  \/ \E k \in Keys : ConnectFail(k)
  \/ \E k \in Keys : SessionReads(k, CapRead)
  \/ \E k \in Keys, h \in Handlers : NotifyDone(k, h)
  \/ \E k \in Keys : LinkDrop(k)
  \/ \E k \in Keys, data \in FairPayloads : RxNotify(k, data)
  \/ \E k \in Keys, data \in FairPayloads : LegacyNotify(k, data)
  \/ InsertDevice
  \/ HandleRxData
  \/ UpdateScore
  \/ HandleDisconnect

ProgramStep ==
  \/ \E l \in Loops : LoopIterate(l)
  \/ \E l \in Loops, found \in FairFounds : DiscoverOk(l, found)
  \/ \E l \in Loops : GatherDone(l)
  \/ \E k \in Keys : ConnectOk(k, TRUE) \/ ConnectFail(k)
  \/ \E k \in Keys : SessionReads(k, CapRead)
  \/ \E k \in Keys, h \in Handlers : NotifyDone(k, h)
  \/ InsertDevice
  \/ HandleRxData
  \/ UpdateScore
  \/ HandleDisconnect

FairSpec == Init /\ [][NextFair]_vars /\ WF_vars(ProgramStep)

(***************************************************************************)
(* FairStop and HangSpec: the peripheral of FairSpec, and stop().  In      *)
(* FairStop every `await client.disconnect()` of stop() returns or raises; *)
(* in HangSpec the transport is free never to complete the call.           *)
(***************************************************************************)
NextStop ==
  \/ Start
  \/ StopBegin
  \/ \E k \in Keys, ok \in BOOLEAN : StopDisconnect(k, ok)
  \/ \E l \in Loops : LoopIterate(l)
  \/ \E l \in Loops, found \in FairFounds : DiscoverOk(l, found)
  \/ \E l \in Loops : GatherDone(l)
  \/ \E k \in Keys : ConnectOk(k, TRUE)
  \/ \E k \in Keys : ConnectFail(k)
  \/ \E k \in Keys : SessionReads(k, CapRead)
  \/ \E k \in Keys, h \in Handlers : NotifyDone(k, h)
  \/ \E k \in Keys : LinkDrop(k)
  \/ \E k \in Keys, data \in FairPayloads : RxNotify(k, data)
  \/ \E k \in Keys, data \in FairPayloads : LegacyNotify(k, data)
  \/ InsertDevice
  \/ HandleRxData
  \/ UpdateScore
  \/ HandleDisconnect

DisconnectReturns == \E k \in Keys, ok \in BOOLEAN : StopDisconnect(k, ok)

FairStop ==
  Init /\ [][NextStop]_vars /\ WF_vars(ProgramStep) /\ WF_vars(DisconnectReturns)

HangSpec == Init /\ [][NextStop]_vars /\ WF_vars(ProgramStep)

(***************************************************************************)
(* SpecTx: send_tx_data for a connected, an unknown and a disconnected     *)
(* address, while one peripheral connects and goes away and stop() runs.   *)
(***************************************************************************)
TxAddrs == {"A1", "B2"}

NextTx ==
  \/ Start
  \/ StopBegin
  \/ \E k \in Keys, ok \in BOOLEAN : StopDisconnect(k, ok)
  \/ \E l \in Loops : LoopIterate(l)
  \/ \E l \in Loops, found \in FairFounds : DiscoverOk(l, found)
  \/ \E l \in Loops : GatherDone(l)
  \/ \E k \in Keys : ConnectOk(k, TRUE)
  \/ \E k \in Keys : SessionReads(k, CapRead)
  \/ \E k \in Keys : NotifyDone(k, "none")
  \/ \E k \in Keys : LinkDrop(k)
  \/ InsertDevice
  \/ HandleDisconnect
  \/ \E addr \in TxAddrs, jsonOk \in BOOLEAN : SendTxBegin(addr, jsonOk)
  \/ \E ok \in BOOLEAN : TxWriteDone(ok)

SpecTx == Init /\ [][NextTx]_vars

(***************************************************************************)
(* SpecIsolate: two peripherals in range, found in the same cycle; each    *)
(* session may fail at connect, at the service enumeration or at the       *)
(* service check; discovery may raise.                                     *)
(***************************************************************************)
IsolateFounds ==
  {found \in FoundLists({AdvTarget("A1"), AdvTarget("B2")}, MaxFound) :
     Distinct(found)}

NextIsolate ==
  \/ Start
  \/ \E l \in Loops : LoopIterate(l)
  \/ \E l \in Loops, found \in IsolateFounds : DiscoverOk(l, found)
  \/ \E l \in Loops : DiscoverFail(l)
  \/ \E l \in Loops : GatherDone(l)
  \/ \E k \in Keys, svc \in BOOLEAN : ConnectOk(k, svc)
  \/ \E k \in Keys : ConnectFail(k)
  \/ \E k \in Keys : VerifyReject(k)
  \/ \E k \in Keys : VerifyFail(k)
  \/ \E k \in Keys : SessionReads(k, CapRead)
  \/ \E k \in Keys : NotifyDone(k, "none")
  \/ \E k \in Keys : LinkDrop(k)
  \/ InsertDevice
  \/ HandleDisconnect

SpecIsolate == Init /\ [][NextIsolate]_vars

(***************************************************************************)
(* SpecFilter: _device_matches on every record built from the values below *)
(* in both modes; in the mode of the configuration the record is then what *)
(* discover() returns to the scan loop.                                    *)
(***************************************************************************)
FilterNames == {"", "Phone", "scoreboard-1"}

FilterProps == {<<>>, << OTHER_UUID >>, << UPPER_UUID >>}

FilterServiceData ==
  {EmptyDict,
   DictSet(EmptyDict, OTHER_UUID, AdvValue(FALSE)),
   DictSet(EmptyDict, OTHER_UUID, AdvValue(TRUE)),
   DictSet(EmptyDict, UPPER_UUID, AdvValue(FALSE))}

FilterServiceUuids == {<<>>, << OTHER_UUID >>, << UPPER_UUID >>}

\* manufacturer data is keyed by company id
FilterManufacturerData ==
  {EmptyDict,
   DictSet(EmptyDict, 76, AdvValue(FALSE)),
   DictSet(EmptyDict, 76, AdvValue(TRUE))}

\* a record without metadata has none of the three metadata entries
FilterRecords ==
  {AdvRecord("A1", n, p, FALSE, EmptyDict, <<>>, EmptyDict) :
     n \in FilterNames, p \in FilterProps}
  \cup
  {AdvRecord("A1", r[1], r[2], TRUE, r[3], r[4], r[5]) :
     r \in FilterNames \X FilterProps \X FilterServiceData
            \X FilterServiceUuids \X FilterManufacturerData}

MatchProbe(d, strict) ==
  [pc |-> "in", fn |-> "match", arg |-> [d |-> d, strict |-> strict],
   res |-> None]

InitFilter ==
  /\ InitManager
  /\ probe \in {MatchProbe(d, strict) : d \in FilterRecords, strict \in BOOLEAN}

\* the call returns
ApplyMatch ==
  /\ probe.pc = "in" /\ probe.fn = "match"
  /\ probe' = [probe EXCEPT
                 !.pc = "out",
                 !.res = device_matches(probe.arg.d, probe.arg.strict)]
  /\ UNCHANGED << running, devices, clients, lock, stopTodo, loops, sess,
                  tasks, subscribers, queues, lastEvent, failRun, tx, notified >>

\* discover() returns the record
ScanProbe(l) ==
  /\ probe.pc = "out" /\ probe.fn = "match"
  /\ probe.arg.strict = STRICT_SERVICE_UUID_FILTERING
  /\ DiscoverOk(l, << probe.arg.d >>)

NextFilter ==
  \/ ApplyMatch
  \/ Start
  \/ \E l \in Loops : LoopIterate(l)
  \/ \E l \in Loops : ScanProbe(l)
  \/ \E l \in Loops : GatherDone(l)
  \/ \E k \in Keys : ConnectFail(k)

SpecFilter == InitFilter /\ [][NextFilter]_vars

(***************************************************************************)
(* SpecDecode: _parse_rx_data on one payload of each format; the payload   *)
(* then arrives as a notification of a connected peripheral.               *)
(***************************************************************************)
DecodePayloads ==
  {P_pong7, P_score7, P_fortytwo, P_seven, P_pong0, P_le300, P_empty}

RxProbe(data) == [pc |-> "in", fn |-> "rx", arg |-> data, res |-> None]

InitDecode ==
  /\ InitManager
  /\ probe \in {RxProbe(data) : data \in DecodePayloads}

\* the call returns
ApplyParseRx ==
  /\ probe.pc = "in" /\ probe.fn = "rx"
  /\ probe' = [probe EXCEPT !.pc = "out", !.res = ParseRx(probe.arg)]
  /\ UNCHANGED << running, devices, clients, lock, stopTodo, loops, sess,
                  tasks, subscribers, queues, lastEvent, failRun, tx, notified >>

\* the peripheral sends the payload
NotifyProbe(k) ==
  /\ probe.pc = "out" /\ probe.fn = "rx"
  /\ RxNotify(k, probe.arg)

NextDecode ==
  \/ ApplyParseRx
  \/ Start
  \/ \E l \in Loops : LoopIterate(l)
  \/ \E l \in Loops, found \in FairFounds : DiscoverOk(l, found)
  \/ \E l \in Loops : GatherDone(l)
  \/ \E k \in Keys : ConnectOk(k, TRUE)
  \/ \E k \in Keys : SessionReads(k, CapRead)
  \/ \E k \in Keys : NotifyDone(k, "rx")
  \/ \E k \in Keys : LinkDrop(k)
  \/ \E k \in Keys : NotifyProbe(k)
  \/ InsertDevice
  \/ HandleRxData
  \/ HandleDisconnect

SpecDecode == InitDecode /\ [][NextDecode]_vars

(***************************************************************************)
(* SpecColor: deterministic_color on every key of up to MaxKeyLen          *)
(* characters over '0' and 'F' (long enough for h to pass 2^32), while the *)
(* peripheral A1 connects, goes away and reconnects, also across stop()    *)
(* and start().                                                            *)
(***************************************************************************)
ColorCodes == {48, 70}

ColorKeys == UNION {[1..n -> ColorCodes] : n \in 0..MaxKeyLen}

ColorProbe(cs) == [pc |-> "in", fn |-> "color", arg |-> cs, res |-> None]

InitColor ==
  /\ InitManager
  /\ probe \in {ColorProbe(cs) : cs \in ColorKeys}

\* the call returns: h after the loop, and the palette entry
ApplyColor ==
  /\ probe.pc = "in" /\ probe.fn = "color"
  /\ LET h == ColorHash(probe.arg, [hi |-> 0, lo |-> 0])
     IN probe' = [probe EXCEPT
                    !.pc = "out",
                    !.res = [h |-> h, color |-> COLOR_PALETTE[PaletteIndex(h) + 1]]]
  /\ UNCHANGED << running, devices, clients, lock, stopTodo, loops, sess,
                  tasks, subscribers, queues, lastEvent, failRun, tx, notified >>

NextColor ==
  \/ ApplyColor
  \/ Start
  \/ StopBegin
  \/ \E k \in Keys, ok \in BOOLEAN : StopDisconnect(k, ok)
  \/ \E l \in Loops : LoopIterate(l)
  \/ \E l \in Loops, found \in FairFounds : DiscoverOk(l, found)
  \/ \E l \in Loops : GatherDone(l)
  \/ \E k \in Keys : ConnectOk(k, TRUE)
  \/ \E k \in Keys : SessionReads(k, CapRead)
  \/ \E k \in Keys : NotifyDone(k, "none")
  \/ \E k \in Keys : LinkDrop(k)
  \/ InsertDevice
  \/ HandleDisconnect

SpecColor == InitColor /\ [][NextColor]_vars

(***************************************************************************)
(* SpecFrame: two peripherals (A1, B2) that come up as "Pong" with score   *)
(* 0 and send updates that carry a score only, a game name only, both, or  *)
(* a legacy score; either may go away.                                     *)
(***************************************************************************)
FrameFounds ==
  {found \in FoundLists({AdvTarget("A1"), AdvTarget("B2")}, MaxFound) :
     Distinct(found)}

FrameRead == [rxOk |-> TRUE, raw |-> P_pong0, txOk |-> FALSE, text |-> ""]

FramePayloads == {P_score7, P_snake, P_pong0}

FrameLegacy == {P_seven, P_fortytwo}

NextFrame ==
  \/ Start
  \/ \E l \in Loops : LoopIterate(l)
  \/ \E l \in Loops, found \in FrameFounds : DiscoverOk(l, found)
  \/ \E l \in Loops : GatherDone(l)
  \/ \E k \in Keys : ConnectOk(k, TRUE)
  \/ \E k \in Keys : SessionReads(k, FrameRead)
  \/ \E k \in Keys, h \in {"rx", "legacy"} : NotifyDone(k, h)
  \/ \E k \in Keys : LinkDrop(k)
  \/ \E k \in Keys, data \in FramePayloads : RxNotify(k, data)
  \/ \E k \in Keys, data \in FrameLegacy : LegacyNotify(k, data)
  \/ InsertDevice
  \/ HandleRxData
  \/ UpdateScore
  \/ HandleDisconnect

SpecFrame == Init /\ [][NextFrame]_vars

(***************************************************************************)
(* SpecRetry: the peripheral A1 is in every discovery result; connect()    *)
(* and get_services() may raise any number of times; the manager is never  *)
(* stopped.  Every step of the program that is enabled is eventually       *)
(* taken.                                                                  *)
(***************************************************************************)
RetryFounds == {<< AdvTarget("A1") >>}

NextRetry ==
  \/ Start
  \/ \E l \in Loops : LoopIterate(l)
  \/ \E l \in Loops, found \in RetryFounds : DiscoverOk(l, found)
  \/ \E l \in Loops : GatherDone(l)
  \/ \E k \in Keys : ConnectOk(k, TRUE)
  \/ \E k \in Keys : ConnectFail(k)
  \/ \E k \in Keys : VerifyFail(k)
  \/ \E k \in Keys : SessionReads(k, CapRead)
  \/ \E k \in Keys, h \in Handlers : NotifyDone(k, h)
  \/ \E k \in Keys : LinkDrop(k)
  \/ \E k \in Keys, data \in FairPayloads : RxNotify(k, data)
  \/ \E k \in Keys, data \in FairPayloads : LegacyNotify(k, data)
  \/ InsertDevice
  \/ HandleRxData
  \/ UpdateScore
  \/ HandleDisconnect

RetryStep ==
  \/ \E l \in Loops : LoopIterate(l)
  \/ \E l \in Loops, found \in RetryFounds : DiscoverOk(l, found)
  \/ \E l \in Loops : GatherDone(l)
  \/ \E k \in Keys : ConnectOk(k, TRUE) \/ ConnectFail(k) \/ VerifyFail(k)
  \/ \E k \in Keys : SessionReads(k, CapRead)
  \/ \E k \in Keys, h \in Handlers : NotifyDone(k, h)
  \/ InsertDevice
  \/ HandleRxData
  \/ UpdateScore
  \/ HandleDisconnect

SpecRetry == Init /\ [][NextRetry]_vars /\ WF_vars(RetryStep)

(***************************************************************************)
(* SpecOrder: one peripheral (A1) that sends telemetry, also while stop()  *)
(* holds the lock in `await client.disconnect()`: the tasks of the         *)
(* notifications that arrive then wait for the lock, in a queue.           *)
(***************************************************************************)
OrderFounds == FoundLists({AdvTarget("A1")}, 1)

OrderPayloads == {P_score7, P_snake, P_pong0}

OrderLegacy == {P_seven, P_fortytwo}

NextOrder ==
  \/ Start
  \/ StopBegin
  \/ \E k \in Keys : StopDisconnect(k, TRUE)
  \/ \E l \in Loops : LoopIterate(l)
  \/ \E l \in Loops, found \in OrderFounds : DiscoverOk(l, found)
  \/ \E l \in Loops : GatherDone(l)
  \/ \E k \in Keys : ConnectOk(k, TRUE)
  \/ \E k \in Keys : SessionReads(k, FrameRead)
  \/ \E k \in Keys, h \in {"rx", "legacy"} : NotifyDone(k, h)
  \/ \E k \in Keys : LinkDrop(k)
  \/ \E k \in Keys, data \in OrderPayloads : RxNotify(k, data)
  \/ \E k \in Keys, data \in OrderLegacy : LegacyNotify(k, data)
  \/ InsertDevice
  \/ HandleRxData
  \/ UpdateScore
  \/ HandleDisconnect

SpecOrder == Init /\ [][NextOrder]_vars

(***************************************************************************)
(* SpecLoops: start() and stop() in any order around one peripheral; a     *)
(* scan loop that stop() has not yet ended may still be alive when start() *)
(* is called again.  Discovery may raise.                                  *)
(***************************************************************************)
NextLoops ==
  \/ Restart
  \/ StopBegin
  \/ \E k \in Keys, ok \in BOOLEAN : StopDisconnect(k, ok)
  \/ \E l \in Loops : LoopIterate(l)
  \/ \E l \in Loops, found \in BackoffFounds : DiscoverOk(l, found)
  \/ \E l \in Loops : DiscoverFail(l)
  \/ \E l \in Loops : GatherDone(l)
  \/ \E k \in Keys : ConnectOk(k, TRUE)
  \/ \E k \in Keys : SessionReads(k, CapRead)
  \/ \E k \in Keys : NotifyDone(k, "none")
  \/ \E k \in Keys : LinkDrop(k)
  \/ InsertDevice
  \/ HandleDisconnect

SpecLoops == Init /\ [][NextLoops]_vars

(***************************************************************************)
(* Properties.                                                             *)
(***************************************************************************)
\* a session that is connecting, verifying or active
SessionOpen(k) ==
  \/ sess[k].pc \in {"connect", "verify", "lock"}
  \/ sess[k].pc \in {"notify", "done"} /\ sess[k].link

\* the step publishes an event for id
Published(id) == lastEvent'[id].tick # lastEvent[id].tick

\* the event says the device is present
Announced(e) == e.type \in {"device_added", "device_updated"}

\* C1: for every device id at most one Connection Session (connecting,
\* verifying or active) exists at any time.
\* a session between its creation and its insert into the Registry
InFlight(k) == sess[k].pc \in {"connect", "verify", "lock"}

C1_OneSessionPerId ==
  \A id \in Ids : Cardinality({k \in Keys : k[1] = id /\ SessionOpen(k)}) <= 1

\* C4: a device_updated or device_removed event for an id is published only
\* while the id is announced: not before its device_added, and no
\* device_updated (or second device_removed) after its device_removed.
C4_EventOrder ==
  [][\A id \in Ids :
       (Published(id)
        /\ lastEvent'[id].event.type \in {"device_updated", "device_removed"})
       => Announced(lastEvent[id].event)]_vars

C4_Witness ==
  /\ lastEvent["A1"].event.type = "device_removed"
  /\ "A1" \notin DOMAIN devices

\* C5: in every state another task can observe, the Registry holds for each
\* id what the event published last for that id says: present with that
\* event's game_name and score after device_added or device_updated, absent
\* after device_removed (or when nothing was published).
C5_RegistryMatchesLastEvent ==
  \A id \in Ids :
    IF id \in DOMAIN devices
    THEN /\ Announced(lastEvent[id].event)
         /\ lastEvent[id].event.device.game_name = devices[id].game_name
         /\ lastEvent[id].event.device.score = devices[id].score
    ELSE lastEvent[id].event.type \in {"none", "device_removed"}

C5_Witness ==
  /\ "A1" \in DOMAIN devices
  /\ lastEvent["A1"].event.type = "device_updated"
  /\ devices["A1"].score = 7
  /\ devices["A1"].game_name = "Pong"

\* C6: a session whose peripheral does not expose the target service never
\* gets past verification: it is not the session of any client map entry, it
\* never reaches the insert, and once rejected its transport is closed.
C6_UnverifiedNeverAdded ==
  \A k \in Keys :
    /\ (sess[k].pc \in {"lock", "notify", "done"} \/ k \in Referenced(clients))
         => sess[k].svc
    /\ sess[k].pc = "rejected" => (~sess[k].link /\ k \notin Referenced(clients))

C6_Witness ==
  \E k \in Keys : sess[k].pc = "rejected" /\ k[1] \notin DOMAIN devices

\* C7: device_updated is published only by a step that changes game_name or
\* score of the Registry entry, so it never repeats the game_name and score
\* of the event published just before it for the id.
C7_UpdateOnlyOnChange ==
  [][\A id \in Ids :
       (Published(id) /\ lastEvent'[id].event.type = "device_updated")
       => /\ id \in DOMAIN devices
          /\ id \in DOMAIN devices'
          /\ << devices'[id].game_name, devices'[id].score >>
               # << devices[id].game_name, devices[id].score >>
          /\ Announced(lastEvent[id].event)
          /\ << lastEvent'[id].event.device.game_name,
                lastEvent'[id].event.device.score >>
               # << lastEvent[id].event.device.game_name,
                    lastEvent[id].event.device.score >>]_vars

C7_Witness ==
  /\ lastEvent["A1"].event.type = "device_updated"
  /\ tasks # <<>>
  /\ Head(tasks).kind = "rx"
  /\ Head(tasks).addr = "A1"
  /\ "A1" \in DOMAIN devices
  /\ Head(tasks).data.t = "dict"
  /\ ~RxUpdated(devices["A1"], Head(tasks).data.d)

\* C2: the number of devices in the Registry plus the number of Connection
\* Sessions in flight is at most MAX_DEVICES.
C2_CapCountsInFlight ==
  Cardinality(DOMAIN devices) + Cardinality({k \in Keys : InFlight(k)})
    <= MAX_DEVICES

\* C3: a link that goes down after the device was inserted into the Registry
\* leads to the removal of the device from the Registry and the client map
\* and to a device_removed event for its id.
C3_DisconnectCleansUp ==
  \A k \in Keys :
    (sess[k].lost /\ k[1] \in DOMAIN devices)
      ~> (/\ k[1] \notin DOMAIN devices
          /\ k[1] \notin DOMAIN clients
          /\ lastEvent[k[1]].event.type = "device_removed")

\* C8: the sleep a cycle ends in is 3 x SCAN_INTERVAL exactly when the cycle
\* is the 5th failed discovery in a row (counted since the last success or
\* the last elongated sleep), and SCAN_INTERVAL otherwise; the loop's own
\* counter agrees with that count and is back at 0 after a success or an
\* elongated sleep.
C8_BackoffCadence ==
  \A l \in Loops :
    /\ failRun[l] \in 0..max_consecutive_errors
    /\ loops[l].pc = "sleep" =>
         /\ loops[l].sleep =
              (IF failRun[l] = 5 THEN 3 * SCAN_INTERVAL ELSE SCAN_INTERVAL)
         /\ loops[l].errors = failRun[l]
    /\ loops[l].pc \in {"discover", "gather"} =>
         /\ loops[l].errors < 5
         /\ loops[l].errors = failRun[l]

C8_Witness ==
  \E l \in Loops :
    /\ loops[l].pc = "sleep"
    /\ loops[l].sleep = 3 * SCAN_INTERVAL
    /\ failRun[l] = 5

\* C9: a publish appends the event to the queue of every registered
\* subscriber, whatever the other queues hold.
C9_PublishReachesAll ==
  [][\A id \in Ids :
       Published(id) =>
         \A s \in subscribers :
           queues'[s] = Append(queues[s], lastEvent'[id].event)]_vars

C9_Witness ==
  /\ subscribers = {1, 2}
  /\ Len(queues[1]) = MaxPending
  /\ Len(queues[2]) = 1
  /\ queues[2][1] = queues[1][MaxPending]
  /\ queues[2][1] = lastEvent["A1"].event

\* C10: the events held for a subscriber stay below a fixed capacity: a
\* queue never grows to the horizon of the model.
C10_QueueBounded ==
  \A s \in subscribers : Len(queues[s]) < MaxPending

\* stop() has returned and start() has not been called since
Stopped == ~running /\ lock # "stop"

\* C11: once stop() has returned, no step creates a Connection Session and
\* no step inserts an id into the Registry or the client map.
C11_NothingStartsAfterStop ==
  [][Stopped =>
       /\ \A k \in Keys : sess'[k].pc = "connect" => sess[k].pc = "connect"
       /\ DOMAIN devices' \subseteq DOMAIN devices
       /\ \A a \in DOMAIN clients' :
            a \in DOMAIN clients /\ clients'[a] = clients[a]]_vars

\* C12: a device that is in the client map when stop() takes its snapshot
\* is eventually removed from the Registry, with device_removed as the
\* event published last for its id.
C12_StopRemovesDevices ==
  \A id \in Ids :
    (lock = "stop" /\ id \in DOMAIN clients /\ id \in DOMAIN devices)
      ~> (id \notin DOMAIN devices
          /\ lastEvent[id].event.type = "device_removed")

\* C13: stop() returns: the lock it holds while it disconnects the clients
\* is eventually released.
C13_StopReturns == (lock = "stop") ~> (lock = "free")

\* stop() is suspended in `await client.disconnect()` with the lock held
StopInDisconnect == lock = "stop" /\ stopTodo # {}

\* C14: no task is suspended in a transport or discovery call while it holds
\* the registry lock.
C14_LockNotHeldAcrossIO == ~StopInDisconnect

\* C15: send_tx_data never raises; with no client for the address in the
\* client map it returns False; it returns True only after write_gatt_char
\* succeeded; and none of its steps changes the Registry or publishes.
C15_SendTxContract ==
  [][/\ tx'.pc # "raised"
     /\ (tx' # tx /\ tx'.pc = "true")
          => tx.pc = "write" /\ tx'.wrote /\ sess[tx.key].link
     /\ (tx' # tx /\ tx.pc # "write" /\ tx'.addr \notin DOMAIN clients)
          => tx'.pc = "false"
     /\ tx' # tx =>
          /\ devices' = devices
          /\ clients' = clients
          /\ lastEvent' = lastEvent
          /\ queues' = queues]_vars

C15_Witness ==
  /\ tx.pc = "false"
  /\ tx.addr = "A1"
  /\ "A1" \in DOMAIN devices
  /\ "A1" \notin DOMAIN clients

\* the step ends session k in a failure
SessionFails(k) ==
  sess[k].pc \in {"connect", "verify"} /\ sess'[k].pc \in {"failed", "rejected"}

\* a session that has not returned yet
SessionRunning(k) == sess[k].pc \in {"connect", "verify", "lock", "notify"}

\* C16: the failure of a session changes no other running session, no scan
\* loop and nothing in the Registry; the gather of a cycle ends in the
\* normal sleep, failed sessions or not; and the loop's failure counter
\* always equals the number of discovery failures in a row.
C16_SessionFailureIsolated ==
  [][/\ \A k \in Keys :
          SessionFails(k) =>
            /\ \A j \in Keys \ {k} : SessionRunning(j) => sess'[j] = sess[j]
            /\ loops' = loops
            /\ devices' = devices /\ clients' = clients
     /\ \A l \in Loops :
          /\ loops'[l].errors = failRun'[l]
          /\ (loops[l].pc = "gather" /\ loops'[l].pc # "gather")
               => /\ loops'[l].pc = "sleep"
                  /\ loops'[l].sleep = SCAN_INTERVAL
                  /\ loops'[l].errors = 0]_vars

C16_Witness ==
  \E l \in Loops : \E k, j \in loops[l].tasks :
    /\ loops[l].pc = "gather"
    /\ sess[k].pc = "failed"
    /\ sess[j].pc = "done" /\ sess[j].link
    /\ j[1] \in DOMAIN devices /\ clients[j[1]] = j

\* the call of _device_matches has returned
Matched == probe.fn = "match" /\ probe.pc = "out"

\* the record carries the target UUID nowhere
NoEvidence(d) ==
  /\ \A i \in 1..Len(d.props) : Lower(d.props[i]) # SERVICE_UUID
  /\ \A u \in DOMAIN d.service_data : Lower(u) # SERVICE_UUID
  /\ \A i \in 1..Len(d.service_uuids) : Lower(d.service_uuids[i]) # SERVICE_UUID
  /\ \A c \in DOMAIN d.manufacturer_data : ~d.manufacturer_data[c].hasUuid
  /\ \A u \in DOMAIN d.service_data : ~d.service_data[u].hasUuid

\* a value of the manufacturer data or of the service data contains the UUID
ValueEvidence(d) ==
  \/ \E c \in DOMAIN d.manufacturer_data : d.manufacturer_data[c].hasUuid
  \/ \E u \in DOMAIN d.service_data : d.service_data[u].hasUuid

\* C17: in strict mode _device_matches returns False for a record that
\* carries the target UUID nowhere, and the scan loop creates no session
\* for it.
C17_StrictRejectsUnknown ==
  (probe.fn = "match" /\ probe.arg.strict /\ NoEvidence(probe.arg.d))
    => /\ Matched => probe.res = FALSE
       /\ \A k \in Keys : sess[k].pc = "free"

C17_Witness ==
  /\ Matched /\ probe.arg.strict /\ NoEvidence(probe.arg.d)
  /\ probe.arg.d.name = "scoreboard-1"
  /\ probe.arg.d.hasMeta
  /\ \E l \in Loops : loops[l].pc = "sleep"

\* C18: a record with the target UUID in a value of its manufacturer data
\* or of its service data is accepted, in both modes.
C18_ValueEvidenceAccepted ==
  (Matched /\ ValueEvidence(probe.arg.d)) => probe.res = TRUE

\* C19: with strict filtering disabled _device_matches returns True for
\* every record.
C19_PermissiveAcceptsAll ==
  (Matched /\ ~probe.arg.strict) => probe.res = TRUE

C19_Witness ==
  /\ Matched /\ ~probe.arg.strict /\ NoEvidence(probe.arg.d)
  /\ probe.arg.d.name = ""
  /\ probe.res = TRUE

\* the normalized record of a payload: a JSON object as it is, decimal
\* integer text n as {score: n}, "name:n" as {game_name: name, score: n},
\* four bytes as {score: little-endian value}, the empty payload as nothing
NormalizedRecord(data) ==
  IF data.enc = "empty" THEN None
  ELSE IF data.enc = "json" /\ data.val.t = "dict" THEN data.val
  ELSE IF data.isInt THEN PyDict([k \in {"score"} |-> data.asInt])
  ELSE IF data.enc = "pair"
    THEN PyDict([k \in {"game_name", "score"} |->
                   IF k = "game_name" THEN data.name ELSE data.num])
  ELSE IF data.len = 4 THEN PyDict([k \in {"score"} |-> data.u32])
  ELSE None

\* C20: _parse_rx_data returns the normalized record of each accepted
\* format.
C20_DecoderNormalizes ==
  (probe.fn = "rx" /\ probe.pc = "out")
    => probe.res = NormalizedRecord(probe.arg)

\* the step runs the _handle_rx_data task at the head of the ready queue
RxTaskRuns ==
  /\ TaskReady
  /\ Head(tasks).kind = "rx"
  /\ tasks' = Tail(tasks)

\* C21: the task that applies a decoded notification never ends with an
\* exception.
C21_TelemetryNeverRaises ==
  [][RxTaskRuns =>
       ~(Head(tasks).addr \in DOMAIN devices /\ RxRaises(Head(tasks).data))]_vars

\* C22: what _parse_rx_data returns is nothing, or a record whose keys are
\* among game_name and score.
C22_DecoderReturnsRecord ==
  (probe.fn = "rx" /\ probe.pc = "out")
    => \/ probe.res = None
       \/ /\ probe.res.t = "dict"
          /\ DOMAIN probe.res.d \subseteq {"game_name", "score"}

\* h = (h * 31 + c) mod 2^32 on four bytes, least significant first
ByteStep(b, c) ==
  LET t0 == b[1] * 31 + c
      t1 == b[2] * 31 + t0 \div 256
      t2 == b[3] * 31 + t1 \div 256
      t3 == b[4] * 31 + t2 \div 256
  IN << t0 % 256, t1 % 256, t2 % 256, t3 % 256 >>

RECURSIVE ByteHash(_, _)
ByteHash(cs, b) ==
  IF cs = <<>> THEN b ELSE ByteHash(Tail(cs), ByteStep(b, Head(cs)))

\* h mod 16 folded directly: 16 divides 2^32
RECURSIVE IndexFold(_, _)
IndexFold(cs, r) ==
  IF cs = <<>> THEN r ELSE IndexFold(Tail(cs), (r * 31 + Head(cs)) % 16)

\* C23: the h of deterministic_color is the fold h = (h * 31 + c) mod 2^32
\* from 0, within 0..2^32-1, the colour is palette[h mod 16] with the index
\* within 0..15, also for the empty key; and every DeviceState in the
\* Registry, and every event about it, carries the colour of its id.
C23_ColorIsPureHash ==
  /\ (probe.fn = "color" /\ probe.pc = "out") =>
       LET b == ByteHash(probe.arg, << 0, 0, 0, 0 >>)
           i == IndexFold(probe.arg, 0)
       IN /\ probe.res.h.hi \in 0..(Half - 1)
          /\ probe.res.h.lo \in 0..(Half - 1)
          /\ probe.res.h.lo = b[2] * 256 + b[1]
          /\ probe.res.h.hi = b[4] * 256 + b[3]
          /\ i \in 0..15
          /\ PaletteIndex(probe.res.h) = i
          /\ probe.res.color = COLOR_PALETTE[i + 1]
  /\ \A id \in DOMAIN devices :
       /\ devices[id].color = deterministic_color(id)
       /\ lastEvent[id].event.device.color = deterministic_color(id)

C23_Witness ==
  /\ probe.fn = "color" /\ probe.pc = "out"
  /\ Len(probe.arg) = MaxKeyLen
  /\ probe.res.h.hi > 0
  /\ "A1" \in DOMAIN devices
  /\ "A1" \in DOMAIN clients
  /\ clients["A1"] = << "A1", 2 >>

IsPrefix(p, q) == Len(p) <= Len(q) /\ SubSeq(q, 1, Len(p)) = p

\* C24: an event is a snapshot taken at the publish: it carries the fields
\* the entry has at that moment, and what waits in a subscriber's queue
\* never changes afterwards; a step only appends to a queue or delivers its
\* first event.
C24_EventIsSnapshot ==
  [][/\ \A s \in subscribers \cap subscribers' :
          \/ IsPrefix(queues[s], queues'[s])
          \/ queues[s] # <<>> /\ queues'[s] = Tail(queues[s])
     /\ \A id \in Ids :
          (Published(id) /\ Announced(lastEvent'[id].event)) =>
             lastEvent'[id].event.device = to_dict(devices'[id])]_vars

C24_Witness ==
  \E s \in subscribers :
    /\ Len(queues[s]) >= 2
    /\ queues[s][1].type = "device_added"
    /\ queues[s][1].device.id = "A1"
    /\ "A1" \in DOMAIN devices
    /\ devices["A1"].score = 7
    /\ queues[s][1].device.score # 7
    /\ queues[s][2].type = "device_updated"

\* the session k returned with no notification handler registered, and the
\* disconnected callback has since created the removal task
DroppedUnregistered(k) ==
  /\ sess[k].pc = "done"
  /\ sess[k].lost
  /\ k[1] \in DOMAIN devices
  /\ \E i \in 1..Len(tasks) : tasks[i] = DiscTask(k[1])

\* C25: when start_notify fails on RX_CHAR_UUID and on the legacy
\* characteristic while the link is up, the session returns Active: the
\* link stays open, the device stays in the Registry and the client map,
\* and no event is published; a disconnect after that still leads to the
\* removal of the device with device_removed.
C25_NotifyFailureKeepsSession ==
  /\ [][\A k \in Keys :
          (/\ sess[k].pc = "notify" /\ sess[k].link
           /\ sess'[k].pc # "notify"
           /\ sess'[k].handler = "none")
            => /\ sess'[k].pc = "done" /\ sess'[k].link
               /\ k[1] \in DOMAIN devices' /\ devices' = devices
               /\ k[1] \in DOMAIN clients' /\ clients' = clients
               /\ lastEvent' = lastEvent
               /\ Announced(lastEvent[k[1]].event)]_vars
  /\ \A k \in Keys :
       (DroppedUnregistered(k) /\ sess[k].handler = "none")
         ~> (/\ k[1] \notin DOMAIN devices
             /\ k[1] \notin DOMAIN clients
             /\ lastEvent[k[1]].event.type = "device_removed")

C25_Witness ==
  \E k \in Keys :
    /\ sess[k].pc = "done" /\ sess[k].link
    /\ sess[k].handler = "none"
    /\ k[1] \in DOMAIN devices
    /\ clients[k[1]] = k
    /\ lastEvent[k[1]].event.type = "device_added"

\* the task at the head of the ready queue applies a telemetry update
TelemetryTaskRuns ==
  /\ TaskReady
  /\ Head(tasks).kind \in {"rx", "score"}
  /\ tasks' = Tail(tasks)

\* C26: a telemetry task changes nothing but the game_name and score of the
\* entry of its own address: an update without game_name (also a legacy
\* score) leaves game_name as it was, an update without score leaves score
\* as it was; id, name and color of that entry, the entries of the other
\* devices, the set of ids and the client map stay as they were.
C26_UpdateFrame ==
  [][TelemetryTaskRuns =>
       LET t == Head(tasks)
           carries(f) == IF t.kind = "score" THEN f = "score"
                         ELSE t.data.t = "dict" /\ f \in DOMAIN t.data.d
       IN /\ clients' = clients
          /\ DOMAIN devices' = DOMAIN devices
          /\ \A id \in DOMAIN devices :
               /\ id # t.addr => devices'[id] = devices[id]
               /\ devices'[id].id = devices[id].id
               /\ devices'[id].name = devices[id].name
               /\ devices'[id].color = devices[id].color
               /\ ~carries("game_name")
                    => devices'[id].game_name = devices[id].game_name
               /\ ~carries("score")
                    => devices'[id].score = devices[id].score]_vars

C26_Witness ==
  /\ DOMAIN devices = {"A1", "B2"}
  /\ devices["A1"].game_name = "Snake" /\ devices["A1"].score = 0
  /\ devices["B2"].game_name = "Pong" /\ devices["B2"].score = 7
  /\ lastEvent["A1"].event.type = "device_updated"
  /\ lastEvent["B2"].event.type = "device_updated"

\* C27: a session that fails in connect() or get_services() touches neither
\* the Registry, the client map nor the event stream, and its id is in
\* neither map afterwards; while the peripheral is in every discovery
\* result, a failure leads to a new session for the id in a later cycle; and
\* a session that has passed verification leads to the id in the Registry
\* and the client map, announced by device_added.
C27_FailedConnectRetried ==
  /\ [][\A k \in Keys :
          (sess[k].pc \in {"connect", "verify"} /\ sess'[k].pc = "failed")
            => /\ devices' = devices /\ clients' = clients
               /\ lastEvent' = lastEvent
               /\ k[1] \notin DOMAIN devices'
               /\ k[1] \notin DOMAIN clients']_vars
  /\ \A k \in Keys :
       (sess[k].pc = "failed")
         ~> (\E n \in 1..MaxPerId : sess[<< k[1], n >>].pc = "connect")
  /\ \A k \in Keys :
       (sess[k].pc = "lock")
         ~> (/\ k[1] \in DOMAIN devices
             /\ k[1] \in DOMAIN clients
             /\ clients[k[1]] = k
             /\ lastEvent[k[1]].event.type = "device_added")

C27_Witness ==
  \E k \in Keys, l \in Loops :
    /\ sess[k].pc = "failed"
    /\ loops[l].pc = "gather" /\ k \in loops[l].tasks
    /\ k[1] \notin DOMAIN devices
    /\ lastEvent[k[1]].event.type = "device_removed"

\* the entry after the telemetry tasks of ts for the address, run in the
\* order of ts
RECURSIVE Replay(_, _, _)
Replay(device, addr, ts) ==
  IF ts = <<>> THEN device
  ELSE LET t == Head(ts)
           next == IF t.addr # addr THEN device
                   ELSE IF t.kind = "rx" /\ t.data.t = "dict"
                     THEN RxApplied(device, t.data.d)
                   ELSE IF t.kind = "score"
                     THEN [device EXCEPT !.score = t.score]
                   ELSE IF t.kind = "insert"
                     THEN [device EXCEPT !.game_name = t.game_name,
                                         !.score = t.score]
                   ELSE device
       IN Replay(next, addr, Tail(ts))

Leaving(id) == \E i \in 1..Len(tasks) : tasks[i] = DiscTask(id)

\* C28: the telemetry tasks of a device run in the order its notifications
\* arrived: at every moment the entry, with the tasks still waiting applied
\* in queue order (an insert waiting for the lock among them), holds the
\* game_name and score that the notifications give when taken in arrival
\* order; so with no task waiting the entry holds what the last
\* notification left.
C28_TelemetryInOrder ==
  \A id \in DOMAIN devices :
    ~Leaving(id) =>
      LET end == Replay(devices[id], id, tasks)
      IN /\ end.game_name = notified[id].game_name
         /\ end.score = notified[id].score

C28_Witness ==
  /\ lock = "stop"
  /\ "A1" \in DOMAIN devices
  /\ devices["A1"].score = 0
  /\ Len(tasks) = 2
  /\ tasks[1] = RxTask("A1", ParseRx(P_score7))
  /\ tasks[2] = RxTask("A1", ParseRx(P_pong0))
  /\ notified["A1"].score = 0

\* C29: for every id the published device_added and device_removed events
\* alternate, starting with device_added: device_added is published only
\* when the last event for the id is none or device_removed, and
\* device_removed only when the id is announced (its last event is
\* device_added or device_updated).
C29_AddedRemovedAlternate ==
  [][\A id \in Ids :
       Published(id) =>
         /\ lastEvent'[id].event.type = "device_added"
              => lastEvent[id].event.type \in {"none", "device_removed"}
         /\ lastEvent'[id].event.type = "device_removed"
              => Announced(lastEvent[id].event)]_vars

\* C30: whenever the lock is free, the ids of the client map are the ids of
\* the Registry.
C30_ClientsMatchRegistry ==
  lock = "free" => DOMAIN clients = DOMAIN devices

\* the scan loop tasks that exist
LiveLoops == {l \in Loops : loops[l].pc # "none"}

\* C31: at most one scan loop task is alive, whatever start() and stop()
\* calls were made.
C31_OneScanLoop ==
  Cardinality(LiveLoops) <= 1

\* C32: a telemetry task for an address that is not in the Registry, on
\* either update path, changes neither the Registry nor the event stream
\* and ends without raising.
C32_StaleUpdateIsNoOp ==
  [][(TelemetryTaskRuns /\ Head(tasks).addr \notin DOMAIN devices) =>
       /\ devices' = devices
       /\ lastEvent' = lastEvent
       /\ queues' = queues
       /\ Head(tasks).kind = "score"
            => ~ScoreRaises(devices, Head(tasks).addr)]_vars

====
